---- MODULE Spec2Model ----
(***************************************************************************)
(* Order / payment / notification saga of Project_shop.                    *)
(*                                                                         *)
(* Spec              choreography: create_order, the outbox relay, the   *)
(*                   event bus and the payment consumer.                  *)
(* SpecOutbox        the order service alone: requests, relay, bus.       *)
(* SpecOutboxLive    the same with the relay scheduled fairly.            *)
(* SpecSaga          orchestration: create_order_orchestrated.            *)
(* SpecBoth          both entry points with the relay and the consumer.   *)
(* SpecConsumer      the payment consumer on a queue that holds messages. *)
(* SpecInbox         the try block of the payment consumer, statement by  *)
(*                   statement, on a session without a begun transaction. *)
(* SpecWorkers       the same try block run by two instances of the       *)
(*                   payment consumer side by side.                       *)
(* SpecMessageId     the payment consumer on deliveries whose routing key *)
(*                   and body join to the same text.                      *)
(* SpecNotification  the notification consumer on a loaded queue.         *)
(* SpecRelay         the relay alone on a stored outbox.                  *)
(* SpecBus           the exchange with its publishers, the notification   *)
(*                   consumer and create_order requests.                  *)
(*                                                                         *)
(* Committed database state is what another connection can read; the rows  *)
(* a session has written but not committed are kept apart (reqRow,         *)
(* relayMarked) and are dropped by a crash or a rollback.                   *)
(***************************************************************************)
EXTENDS Integers, Sequences, FiniteSets, Bags, TLC

\* ---------------------------------------------------------------- bounds
MaxOrders == 2
MaxPaidOrders == 1
MaxFaults == 2
MaxNum == 12
MaxQueued == 2

\* -------------------------------------------------------------- requests
\* CreateOrderRequest bodies the model submits (schemas.py): amounts are
\* whole currency units.
Requests ==
  { [customer_email |-> "a@x.com",
     items |-> << [product_id |-> 1, quantity |-> 2, price |-> 5] >>],
    [customer_email |-> "b@x.com",
     items |-> << [product_id |-> 1, quantity |-> 1, price |-> 3],
                  [product_id |-> 2, quantity |-> 2, price |-> 1] >>] }

RECURSIVE SumItems(_)
SumItems(items) ==
  IF items = <<>> THEN 0
  ELSE Head(items).price * Head(items).quantity + SumItems(Tail(items))

RECURSIVE SumPrices(_)
SumPrices(items) ==
  IF items = <<>> THEN 0 ELSE Head(items).price + SumPrices(Tail(items))

TotalIgnoresQuantity(req) == SumPrices(req.items)

\* main.py line 74 / 118: sum(i.price * i.quantity for i in req.items)
TotalAmount(req) == SumItems(req.items)

\* ------------------------------------------------------------------ JSON
\* A JSON text is modelled as the sequence of its tokens: braces, quotes,
\* colons and commas each a token, the content of a string one token, a
\* number one token written in decimal. The texts are flat objects of
\* strings and numbers, the only ones the services exchange.
Quote == "\""

JsonKeys ==
  << "order_id", "payment_id", "amount", "customer_email", "total_amount",
     "reason", "email" >>

NumericKeys == {"order_id", "total_amount", "amount"}

JsonToken(k, v) ==
  IF k \in NumericKeys THEN << ToString(v) >> ELSE << Quote, v, Quote >>

\* One member of an object: "key": value
JsonMember(k, v) == << Quote, k, Quote, ":" >> \o JsonToken(k, v)

\* The members of payload from key i on, each one after a comma.
RECURSIVE DumpFrom(_, _)
DumpFrom(payload, i) ==
  IF i > Len(JsonKeys) THEN <<>>
  ELSE (IF JsonKeys[i] \in DOMAIN payload
          THEN << "," >> \o JsonMember(JsonKeys[i], payload[JsonKeys[i]])
          ELSE <<>>) \o DumpFrom(payload, i + 1)

\* json.dumps(payload).encode("utf-8")
json_dumps(payload) ==
  LET members == DumpFrom(payload, 1)
  IN << "{" >> \o (IF members = <<>> THEN <<>> ELSE Tail(members)) \o << "}" >>

IsJsonNumber(tok) == \E n \in 0..MaxNum : ToString(n) = tok

JsonValue(tok) ==
  IF IsJsonNumber(tok) THEN CHOOSE n \in 0..MaxNum : ToString(n) = tok ELSE tok

JsonFail == [ok |-> FALSE, obj |-> << >>]

\* The decoder on the members that start at token i: a quoted key, a
\* colon, a number or a quoted string, then a comma and further members or
\* the closing brace as the last token. Anything else is not JSON. Of two
\* members with one key the later one is kept.
RECURSIVE ParseMembers(_, _)
ParseMembers(body, i) ==
  LET n == Len(body)
  IN IF i + 4 > n THEN JsonFail
     ELSE IF \/ body[i] # Quote
             \/ body[i + 1] = Quote
             \/ body[i + 2] # Quote
             \/ body[i + 3] # ":" THEN JsonFail
     ELSE LET is_string == body[i + 4] = Quote
              last == IF is_string THEN i + 6 ELSE i + 4
          IN IF last + 1 > n THEN JsonFail
             ELSE IF is_string /\ (body[i + 5] = Quote \/ body[i + 6] # Quote)
               THEN JsonFail
             ELSE IF ~ is_string /\ ~ IsJsonNumber(body[i + 4]) THEN JsonFail
             ELSE LET member ==
                        body[i + 1] :> (IF is_string THEN body[i + 5]
                                        ELSE JsonValue(body[i + 4]))
                  IN IF body[last + 1] = "}"
                       THEN IF last + 1 = n
                              THEN [ok |-> TRUE, obj |-> member]
                            ELSE JsonFail
                     ELSE IF body[last + 1] = ","
                       THEN LET rest == ParseMembers(body, last + 2)
                            IN IF rest.ok
                                 THEN [ok |-> TRUE, obj |-> rest.obj @@ member]
                               ELSE JsonFail
                     ELSE JsonFail

ParseJson(body) ==
  IF body = << "{", "}" >> THEN [ok |-> TRUE, obj |-> << >>]
  ELSE IF Len(body) < 2 THEN JsonFail
  ELSE IF body[1] # "{" THEN JsonFail
  ELSE ParseMembers(body, 2)

\* Whether json.loads(body) returns: it raises JSONDecodeError on a text
\* that is not JSON.
IsJson(body) == ParseJson(body).ok

\* json.loads(message.body)
json_loads(body) == ParseJson(body).obj

\* ------------------------------------------------------------- event bus
ROUTING_KEY_ORDER_CREATED == << "order.created" >>
ROUTING_KEY_GENERIC == << "events.generic" >>
ROUTING_KEY_PAYMENT_PROCESSED == << "payment.processed" >>
ROUTING_KEY_PAYMENT_FAILED == << "payment.failed" >>
ROUTING_KEY_NOTIFICATION_SENT == << "notification.sent" >>

Envelope(routing_key, payload) ==
  [routing_key |-> routing_key, body |-> json_dumps(payload)]

NoMsg == [routing_key |-> <<>>, body |-> <<>>]

Range(seq) == { seq[i] : i \in 1..Len(seq) }

VARIABLES
  orders,          \* order_service: committed rows of table orders, by id
  orderSeq,        \* order_service: last value of the orders id sequence
  outbox,          \* order_service: committed rows of outbox_messages, by id
  reqPc,           \* create_order request: "idle" | "flushed"
  reqRow,          \* create_order request: the order row flushed, uncommitted
  relayPc,         \* publish_outbox_messages: "sleep" | "batch"
  relayBatch,      \* relay: ids selected as pending and not yet published
  relayMarked,     \* relay: ids updated to sent in the open transaction
  busUp,           \* RabbitMQ reachable
  published,       \* bag of every envelope the exchange accepted
  payQueueDeclared,\* payment_queue declared and bound to order.created
  payQueue,        \* bag of envelopes in payment_queue (unacked included)
  payInflight,     \* envelope delivered to the payment consumer, unacked
  inbox,           \* payment_service: committed rows of inbox_messages
  payments,        \* payment_service: committed rows of payments
  handled,         \* bag: the deliveries the payment consumer handled
  txPc,            \* payment consumer inside the try block: "idle" |
                   \* "flushed" | "committed"
  txRow,           \* the inbox row flushed in the open transaction
  workers,         \* payment_service run as several instances: for each,
                   \* the delivery it holds, its position in the try block
                   \* and the inbox row of its open transaction
  notifQueueDeclared, \* notification_queue declared and bound
  notifQueue,      \* bag of envelopes in notification_queue
  notifInflight,   \* envelope delivered to the notification consumer
  notifications,   \* bag: the notifications send_notification has sent
  netCalls,        \* set: who published or called a collaborator, and
                   \* whether its session had a transaction open then
  faults,          \* crashes and bus outages injected so far
  sagaPc,          \* create_order_orchestrated: the step it is about to take
  sagaOrder,       \* create_order_orchestrated: order_id of the request
  sagaLog          \* per orchestrated order: replies received, calls made,
                   \* response returned

orderVars == << orders, orderSeq, outbox, reqPc, reqRow >>
relayVars == << relayPc, relayBatch, relayMarked >>
busVars == << busUp, published, payQueueDeclared, payQueue >>
payVars == << payInflight, inbox, payments, handled, txPc, txRow, workers >>
sagaVars == << sagaPc, sagaOrder, sagaLog >>
notifVars == << notifQueueDeclared, notifQueue, notifInflight, notifications >>
vars == << orderVars, relayVars, busVars, payVars, faults, sagaVars,
          notifVars, netCalls >>

NoRow == [id |-> 0]

\* The instances of the payment service that consume payment_queue side by
\* side, and an instance that holds no delivery.
Instances == {1, 2}

IdleWorker == [inflight |-> NoMsg, pc |-> "idle", row |-> NoRow]

\* The state after start-up, given the outbox records already stored and
\* what the broker holds: whether each queue is declared and the messages
\* waiting in it.
InitWith(ob, pay_declared, pay_queue, notif_declared, notif_queue) ==
  /\ orders = << >>
  /\ orderSeq = 0
  /\ outbox = ob
  /\ reqPc = "idle"
  /\ reqRow = NoRow
  /\ relayPc = "sleep"
  /\ relayBatch = {}
  /\ relayMarked = {}
  /\ busUp = TRUE
  /\ published = EmptyBag
  /\ payQueueDeclared = pay_declared
  /\ payQueue = pay_queue
  /\ payInflight = NoMsg
  /\ inbox = {}
  /\ payments = {}
  /\ handled = EmptyBag
  /\ txPc = "idle"
  /\ txRow = NoRow
  /\ workers = [i \in Instances |-> IdleWorker]
  /\ notifQueueDeclared = notif_declared
  /\ notifQueue = notif_queue
  /\ notifInflight = NoMsg
  /\ notifications = EmptyBag
  /\ netCalls = {}
  /\ faults = 0
  /\ sagaPc = "idle"
  /\ sagaOrder = 0
  /\ sagaLog = << >>

\* Both databases freshly created (init_models), nothing on the bus.
Init == InitWith(<< >>, FALSE, EmptyBag, FALSE, EmptyBag)

\* ------------------------------------------------------ sqlalchemy session
\* sqlalchemy Session (autobegin on, the default of async_sessionmaker:
\* order db.py, payment database.py line 63): the first statement a
\* session executes begins its transaction, which stays open until
\* commit, rollback or close.
SessionAfterExecute(state) == "begun"

\* Leaving `async with session.begin()` or calling session.commit() ends
\* the transaction.
SessionAfterCommit(state) == "idle"

SessionInTransaction(state) == state = "begun"

\* One publish to the bus or one call of a collaborator, with whether the
\* caller's session had a transaction open at that moment.
NetCall(component, state) ==
  [component |-> component, tx_open |-> SessionInTransaction(state)]

\* --------------------------------------------------------- order_service
OrderRowConfirmed(id, req) ==
  [id |-> id, customer_email |-> req.customer_email,
   total_amount |-> TotalAmount(req), status |-> "confirmed"]

\* OrderORM(customer_email, total_amount, status="pending") after flush
OrderRow(id, req) ==
  [id |-> id, customer_email |-> req.customer_email,
   total_amount |-> TotalAmount(req), status |-> "pending"]

\* main.py lines 85-90: the order_created outbox record of an order row
OrderCreatedOutbox(order) ==
  [event_type |-> "order_created",
   payload |-> [order_id |-> order.id,
                customer_email |-> order.customer_email,
                total_amount |-> order.total_amount],
   status |-> "pending"]

FlushCommits(ords, row) == (row.id :> row) @@ ords

\* What session.flush() at line 83 makes visible to other connections:
\* nothing, the INSERT stays inside the open transaction.
FlushVisible(ords, row) == ords

\* create_order lines 74-83: open the transaction, add the order, flush.
CreateOrderFlush(req) ==
  /\ reqPc = "idle"
  /\ orderSeq < MaxOrders
  /\ orderSeq' = orderSeq + 1
  /\ reqRow' = OrderRow(orderSeq + 1, req)
  /\ orders' = FlushVisible(orders, OrderRow(orderSeq + 1, req))
  /\ reqPc' = "flushed"
  /\ UNCHANGED << outbox, relayVars, busVars, payVars, faults, sagaVars,
                  notifVars, netCalls >>

\* create_order lines 85-101: add the outbox record; leaving the
\* `async with session.begin()` block commits both rows together.
CreateOrderCommit ==
  /\ reqPc = "flushed"
  /\ orders' = (reqRow.id :> reqRow) @@ orders
  /\ outbox' = outbox @@ ((Len(outbox) + 1) :> OrderCreatedOutbox(reqRow))
  /\ reqPc' = "idle"
  /\ reqRow' = NoRow
  /\ UNCHANGED << orderSeq, relayVars, busVars, payVars, faults, sagaVars,
                  notifVars, netCalls >>

\* The process dies between flush and commit: the database rolls the open
\* transaction back; only what another connection could read survives.
CreateOrderCrash ==
  /\ reqPc = "flushed"
  /\ faults < MaxFaults
  /\ faults' = faults + 1
  /\ reqPc' = "idle"
  /\ reqRow' = NoRow
  /\ UNCHANGED << orders, orderSeq, outbox, relayVars, busVars, payVars,
                  sagaVars, notifVars, netCalls >>

\* ------------------------------------------------ outbox relay (order)
SelectSent(ob) == { id \in DOMAIN ob : ob[id].status = "sent" }

\* outbox_publisher.py lines 37-40: select ... where status == "pending"
SelectPending(ob) == { id \in DOMAIN ob : ob[id].status = "pending" }

RoutingKeyAlwaysOrderCreated(event_type) == ROUTING_KEY_ORDER_CREATED

\* outbox_publisher.py lines 45-49: the routing key of an event type
RoutingKeyFor(event_type) ==
  IF event_type = "order_created" THEN ROUTING_KEY_ORDER_CREATED
  ELSE ROUTING_KEY_GENERIC

\* outbox_publisher.py lines 44-54: the envelope published for a record
OutboxEnvelope(msg) == Envelope(RoutingKeyFor(msg.event_type), msg.payload)

\* The topic exchange routes an envelope to payment_queue once that queue
\* is declared and bound to order.created (payment main.py lines 190-191).
Route(queue, declared, env) ==
  IF declared /\ env.routing_key = ROUTING_KEY_ORDER_CREATED
    THEN queue (+) SetToBag({env})
    ELSE queue

RouteEveryKey(queue, declared, env) ==
  IF declared THEN queue (+) SetToBag({env}) ELSE queue

\* The same exchange routes payment.processed to notification_queue once
\* that queue is declared and bound (notification main.py lines 80-81).
RouteNotification(queue, declared, env) ==
  IF declared /\ env.routing_key = ROUTING_KEY_PAYMENT_PROCESSED
    THEN queue (+) SetToBag({env})
    ELSE queue

RelayStepSwallowsError(id, up, marked) ==
  [published |-> up, marked |-> marked \cup {id}, abort |-> FALSE]

\* outbox_publisher.py lines 51-60, one record of the batch: publish, then
\* update ... values(status="sent") in the open transaction. A failed
\* publish raises out of the loop and out of the session block, closing the
\* session without a commit.
RelayStep(id, up, marked) ==
  IF up
    THEN [published |-> TRUE, marked |-> marked \cup {id}, abort |-> FALSE]
    ELSE [published |-> FALSE, marked |-> {}, abort |-> TRUE]

CommitRewritesRecords(ob, marked) ==
  [id \in DOMAIN ob |->
     IF id \in marked
       THEN [event_type |-> "sent", payload |-> [order_id |-> id],
             status |-> "sent"]
     ELSE ob[id]]

CommitMarksEveryRecord(ob, marked) ==
  [id \in DOMAIN ob |-> [ob[id] EXCEPT !.status = "sent"]]

CommitResetsOthers(ob, marked) ==
  [id \in DOMAIN ob |->
     [ob[id] EXCEPT !.status = IF id \in marked THEN "sent" ELSE "pending"]]

\* outbox_publisher.py lines 62-63: session.commit() of the batch's updates
CommitSent(ob, marked) ==
  [id \in DOMAIN ob |->
     IF id \in marked THEN [ob[id] EXCEPT !.status = "sent"] ELSE ob[id]]

CloseCommits(ob, marked) == CommitSent(ob, marked)

\* outbox_publisher.py line 37: an exception leaves the
\* `async with AsyncSessionLocal() as session` block, which closes the
\* session; the updates made in its transaction are rolled back.
CloseWithoutCommit(ob, marked) == ob

\* outbox_publisher.py lines 30-41: connect, open a session, select.
RelayConnect ==
  /\ relayPc = "sleep"
  /\ IF busUp
       THEN /\ relayPc' = "batch"
            /\ relayBatch' = SelectPending(outbox)
       ELSE UNCHANGED << relayPc, relayBatch >>
  /\ relayMarked' = {}
  /\ UNCHANGED << orderVars, busVars, payVars, faults, sagaVars, notifVars,
                  netCalls >>

\* outbox_publisher.py lines 43-60: the loop body for one selected record.
\* The select has no ORDER BY: the records come in any order.
RelayPublish ==
  /\ relayPc = "batch"
  /\ \E id \in relayBatch :
       LET step == RelayStep(id, busUp, relayMarked)
           env == OutboxEnvelope(outbox[id])
       IN /\ relayMarked' = step.marked
          /\ relayBatch' = IF step.abort THEN {} ELSE relayBatch \ {id}
          /\ relayPc' = IF step.abort THEN "sleep" ELSE "batch"
          /\ published' =
               IF step.published THEN published (+) SetToBag({env})
               ELSE published
          /\ payQueue' =
               IF step.published THEN Route(payQueue, payQueueDeclared, env)
               ELSE payQueue
          /\ outbox' =
               IF step.abort THEN CloseWithoutCommit(outbox, relayMarked)
               ELSE outbox
  /\ netCalls' = netCalls \cup {NetCall("relay", SessionAfterExecute("idle"))}
  /\ UNCHANGED << orders, orderSeq, reqPc, reqRow, busUp, payQueueDeclared,
                  payVars, faults, sagaVars, notifVars >>

\* outbox_publisher.py lines 62-70: commit when the batch was not empty,
\* close, sleep.
RelayCommit ==
  /\ relayPc = "batch"
  /\ relayBatch = {}
  /\ outbox' = CommitSent(outbox, relayMarked)
  /\ relayMarked' = {}
  /\ relayPc' = "sleep"
  /\ UNCHANGED << orders, orderSeq, reqPc, reqRow, relayBatch, busVars,
                  payVars, faults, sagaVars, notifVars, netCalls >>

\* The order service dies during a cycle: the open transaction is lost.
RelayCrash ==
  /\ relayPc = "batch"
  /\ faults < MaxFaults
  /\ faults' = faults + 1
  /\ relayPc' = "sleep"
  /\ relayBatch' = {}
  /\ relayMarked' = {}
  /\ UNCHANGED << orderVars, busVars, payVars, sagaVars, notifVars,
                  netCalls >>

\* ------------------------------------------------------------- the bus
BusFail ==
  /\ busUp
  /\ faults < MaxFaults
  /\ busUp' = FALSE
  /\ faults' = faults + 1
  /\ UNCHANGED << orderVars, relayVars, published, payQueueDeclared,
                  payQueue, payVars, sagaVars, notifVars, netCalls >>

BusRecover ==
  /\ ~ busUp
  /\ busUp' = TRUE
  /\ UNCHANGED << orderVars, relayVars, published, payQueueDeclared,
                  payQueue, payVars, faults, sagaVars, notifVars,
                  netCalls >>

\* -------------------------------------------------------- payment_service
MaxTick == 1

BodyOnlyMessageId(message_body, routing_key) == [sha256 |-> message_body]

RandomMessageId(message_body, routing_key) ==
  [sha256 |-> << ToString(BagCardinality(handled)) >>]

\* payment main.py lines 71-77: sha256 of "{routing_key}:{body}". The hash
\* is modelled as injective on its input (no collisions).
_generate_message_id(message_body, routing_key) ==
  [sha256 |-> routing_key \o << ":" >> \o message_body]

\* No message_id: json.loads raised at line 199, line 203 was not reached.
NoMessageId == [sha256 |-> << >>]

NeverSeenProcessed(message_id, inb) == FALSE

\* payment main.py lines 80-86
_is_message_processed(message_id, inb) ==
  \E r \in inb : r.message_id = message_id /\ r.status = "processed"

\* payment main.py lines 38-54: the simulated gateway always succeeds.
process_payment(order_id, amount, t) ==
  [payment_id |-> "pay_" \o ToString(order_id) \o "_" \o ToString(t),
   order_id |-> order_id, amount |-> amount,
   status |-> "completed", success |-> TRUE]

\* Session.begin() (payment main.py lines 106 and 157) raises
\* InvalidRequestError "A transaction is already begun on this Session"
\* when the session is already in a transaction.
SessionBeginRaises(state) == state = "begun"

\* payment main.py lines 156-164: mark the inbox row failed in a second
\* transaction; an error of that transaction is ignored.
MarkInboxFailed(inb, message_id, state) ==
  IF SessionBeginRaises(state) THEN inb
  ELSE { IF r.message_id = message_id THEN [r EXCEPT !.status = "failed"]
         ELSE r : r \in inb }

InsertNeverRefused(message_id, inb) == FALSE

\* database.py line 52: message_id is unique, the INSERT of a second row
\* with the same message_id raises IntegrityError at the flush.
InboxInsertRefused(message_id, inb) ==
  \E r \in inb : r.message_id = message_id

\* database.py line 33: payment_id is unique.
PaymentInsertRefused(payment_id, pays) ==
  \E q \in pays : q.payment_id = payment_id

\* payment main.py lines 108-113: the inbox row as inserted
PendingInboxRow(event, message_id, inb) ==
  [id |-> Cardinality(inb) + 1, message_id |-> message_id,
   event_type |-> "order_created", payload |-> event, status |-> "pending"]

ProcessedWithoutPayment(event, message_id, inb, pays, t) ==
  [ok |-> TRUE,
   inbox |-> inb \cup {[PendingInboxRow(event, message_id, inb)
                          EXCEPT !.status = "processed"]},
   payments |-> pays, success |-> TRUE, payment_id |-> "none"]

\* payment main.py lines 106-136, the body of the inbox transaction on the
\* committed rows inb, pays: ok = FALSE is a rollback (a unique constraint
\* of database.py lines 33 and 52 refused an INSERT).
InboxTransaction(event, message_id, inb, pays, t) ==
  LET result == process_payment(event["order_id"], event["total_amount"], t)
      customer_email ==
        IF "customer_email" \in DOMAIN event THEN event["customer_email"]
        ELSE ""
      row == [PendingInboxRow(event, message_id, inb)
                EXCEPT !.status = "processed"]
      payment == [id |-> Cardinality(pays) + 1,
                  order_id |-> event["order_id"],
                  payment_id |-> result.payment_id,
                  amount |-> ToString(event["total_amount"]),
                  status |-> IF result.success THEN "completed" ELSE "failed",
                  customer_email |-> customer_email]
  IN IF \/ InboxInsertRefused(message_id, inb)
        \/ PaymentInsertRefused(payment.payment_id, pays)
       THEN [ok |-> FALSE, inbox |-> inb, payments |-> pays,
             success |-> result.success, payment_id |-> result.payment_id]
       ELSE [ok |-> TRUE, inbox |-> inb \cup {row},
             payments |-> pays \cup {payment},
             success |-> result.success, payment_id |-> result.payment_id]

\* payment main.py lines 139-152: the follow-on event of a payment result
FollowOnEvent(event, success, payment_id) ==
  IF success
    THEN Envelope(ROUTING_KEY_PAYMENT_PROCESSED,
           [order_id |-> event["order_id"], payment_id |-> payment_id,
            amount |-> event["total_amount"],
            customer_email |->
              IF "customer_email" \in DOMAIN event
                THEN event["customer_email"] ELSE ""])
    ELSE Envelope(ROUTING_KEY_PAYMENT_FAILED,
           [order_id |-> event["order_id"],
            reason |-> "Payment processing failed"])

\* What one call leaves behind: the committed rows, the envelopes it
\* published, where it raised ("none", "before_try": lines 96-97,
\* "in_try": lines 105-152) and whether the inbox transaction committed.
Outcome(inb, pays, events, raised, committed) ==
  [inbox |-> inb, payments |-> pays, events |-> events,
   raised |-> raised, committed |-> committed]

NoInboxProcessing(event, message_id, inb, pays, up, t) ==
  LET id == Cardinality(pays) + 1
  IN Outcome(inb,
             pays \cup {[id |-> id, order_id |-> event["order_id"],
                         payment_id |-> "pay_" \o ToString(id),
                         amount |-> ToString(event["total_amount"]),
                         status |-> "completed", customer_email |-> ""]},
             << >>, "none", TRUE)

\* payment main.py lines 91-165: one call on a fresh session, given the
\* committed rows, whether the bus accepts a publish, and the clock.
_process_payment_with_inbox(event, message_id, inb, pays, up, t) ==
  IF ~ ({"order_id", "total_amount"} \subseteq DOMAIN event)
    THEN Outcome(inb, pays, << >>, "before_try", FALSE)
  ELSE IF _is_message_processed(message_id, inb)
    THEN Outcome(inb, pays, << >>, "none", FALSE)
  ELSE IF SessionBeginRaises(SessionAfterExecute("idle"))
    THEN Outcome(MarkInboxFailed(inb, message_id, SessionAfterExecute("idle")),
                 pays, << >>, "in_try", FALSE)
  ELSE LET tx == InboxTransaction(event, message_id, inb, pays, t)
       IN IF ~ tx.ok
            THEN Outcome(MarkInboxFailed(inb, message_id, "idle"),
                         pays, << >>, "in_try", FALSE)
          ELSE IF up
            THEN Outcome(tx.inbox, tx.payments,
                         << FollowOnEvent(event, tx.success, tx.payment_id) >>,
                         "none", TRUE)
          ELSE Outcome(MarkInboxFailed(tx.inbox, message_id, "idle"),
                       tx.payments, << >>, "in_try", TRUE)

\* payment main.py lines 197-212: whether the exception of the handler
\* leaves the `async with message.process()` block. The inner
\* `except Exception` catches it, so it never does.
ExceptionEscapes(raised) == FALSE

\* aio_pika message.process(): leaving the block normally acknowledges the
\* message, leaving it by an exception rejects it.
ProcessContextExit(escaped) == IF escaped THEN "reject" ELSE "ack"

\* payment main.py line 200: message.routing_key or "order.created"
RoutingKeyOf(env) ==
  IF env.routing_key = << >> THEN ROUTING_KEY_ORDER_CREATED
  ELSE env.routing_key

\* What is remembered of one handled delivery: the envelope, the
\* message_id computed for it, whether _process_payment_with_inbox was
\* called, where it raised, whether its inbox transaction committed, and
\* how the delivery was settled ("ack", "reject", "lost": the settlement
\* did not reach the broker, "crash": the consumer died).
HandledRecord(env, message_id, called, raised, committed, settled) ==
  [envelope |-> env,
   message_id |-> message_id,
   order_id |-> IF "order_id" \in DOMAIN json_loads(env.body)
                  THEN json_loads(env.body)["order_id"] ELSE 0,
   called |-> called, raised |-> raised, committed |-> committed,
   settled |-> settled]

\* payment main.py lines 185-193: connect, declare payment_queue, bind it.
PaymentConnect ==
  /\ ~ payQueueDeclared
  /\ busUp
  /\ payQueueDeclared' = TRUE
  /\ UNCHANGED << orderVars, relayVars, busUp, published, payQueue,
                  payVars, faults, sagaVars, notifVars, netCalls >>

\* payment main.py lines 195-196: the broker delivers one queued message;
\* it stays in the queue, unacknowledged, until the consumer settles it.
PaymentReceive ==
  /\ payQueueDeclared
  /\ busUp
  /\ payInflight = NoMsg
  /\ \E env \in BagToSet(payQueue) : payInflight' = env
  /\ UNCHANGED << orderVars, relayVars, busVars, inbox, payments, handled,
                  faults, sagaVars, notifVars, netCalls, txPc, txRow,
                  workers >>

\* payment main.py lines 197-212: handle the delivered message and settle
\* it. The settlement reaches the broker only while the bus is reachable;
\* otherwise the message stays queued and is delivered again. A body that
\* is not JSON raises at line 199, before the message_id is computed.
PaymentHandle ==
  /\ payInflight # NoMsg
  /\ txPc = "idle"
  /\ \E t \in 0..MaxTick :
       LET parsed == IsJson(payInflight.body)
           event == json_loads(payInflight.body)
           routing_key == RoutingKeyOf(payInflight)
           message_id ==
             IF parsed
               THEN _generate_message_id(payInflight.body, routing_key)
             ELSE NoMessageId
           called == parsed /\ "order_id" \in DOMAIN event
           out == IF called
                    THEN _process_payment_with_inbox(event, message_id,
                           inbox, payments, busUp, t)
                    ELSE Outcome(inbox, payments, << >>, "before_try", FALSE)
           settle == ProcessContextExit(ExceptionEscapes(out.raised))
       IN /\ inbox' = out.inbox
          /\ payments' = out.payments
          /\ published' = published (+) SetToBag(Range(out.events))
          /\ payQueue' = IF busUp THEN payQueue (-) SetToBag({payInflight})
                         ELSE payQueue
          /\ handled' = handled (+) SetToBag({
               HandledRecord(payInflight, message_id, called, out.raised,
                             out.committed,
                             IF busUp THEN settle ELSE "lost")})
          /\ notifQueue' =
               IF out.events = << >> THEN notifQueue
               ELSE RouteNotification(notifQueue, notifQueueDeclared,
                                      out.events[1])
          /\ netCalls' =
               IF out.events = << >> THEN netCalls
               ELSE netCalls \cup {NetCall("payment", SessionAfterCommit("begun"))}
  /\ payInflight' = NoMsg
  /\ UNCHANGED << orderVars, relayVars, busUp, payQueueDeclared, faults,
                  sagaVars, txPc, txRow, workers, notifQueueDeclared,
                  notifInflight, notifications >>

\* The payment service dies while a message is unacknowledged: the broker
\* keeps the message and delivers it again.
\* A death inside the try block loses the open transaction; it is
\* remembered as a delivery settled by "crash".
PaymentCrash ==
  /\ payInflight # NoMsg
  /\ faults < MaxFaults
  /\ faults' = faults + 1
  /\ payInflight' = NoMsg
  /\ txPc' = "idle"
  /\ txRow' = NoRow
  /\ handled' =
       IF txPc = "idle" THEN handled
       ELSE handled (+) SetToBag({
              HandledRecord(payInflight,
                _generate_message_id(payInflight.body,
                                     RoutingKeyOf(payInflight)),
                TRUE, "none", txPc = "committed", "crash")})
  /\ UNCHANGED << orderVars, relayVars, busVars, inbox, payments, workers,
                  sagaVars, notifVars, netCalls >>

\* ------------------------------- the try block, one statement at a time
\* Lines 105-165 of payment main.py as they run on a session that has no
\* transaction begun when line 106 is reached: session.begin() succeeds
\* and the block runs. (On the session _process_payment_with_inbox is
\* given, the lookup of line 101 has begun one: see SessionBeginRaises.)
InboxFlushCommits(inb, row) == inb \cup {row}

\* What session.flush() at line 115 makes visible to other connections:
\* nothing, the INSERT stays inside the open transaction.
InboxFlushVisible(inb, row) == inb

\* The end of one handled delivery (lines 197-212): the delivery is
\* settled and remembered.
InboxSettle(raised, committed) ==
  /\ payQueue' = IF busUp THEN payQueue (-) SetToBag({payInflight})
                 ELSE payQueue
  /\ handled' = handled (+) SetToBag({
       HandledRecord(payInflight,
         _generate_message_id(payInflight.body, RoutingKeyOf(payInflight)),
         "order_id" \in DOMAIN json_loads(payInflight.body),
         raised, committed,
         IF busUp THEN ProcessContextExit(ExceptionEscapes(raised))
         ELSE "lost")})
  /\ payInflight' = NoMsg
  /\ txPc' = "idle"
  /\ txRow' = NoRow

\* Lines 199-203 and 96-115: parse, compute message_id, read the fields,
\* look the message up, begin the transaction, INSERT the pending row and
\* flush.
InboxFlush ==
  /\ payInflight # NoMsg
  /\ txPc = "idle"
  /\ LET event == json_loads(payInflight.body)
         message_id == _generate_message_id(payInflight.body,
                                            RoutingKeyOf(payInflight))
         row == PendingInboxRow(event, message_id, inbox)
     IN IF ~ ({"order_id", "total_amount"} \subseteq DOMAIN event)
          THEN /\ InboxSettle("before_try", FALSE)
               /\ UNCHANGED inbox
        ELSE IF _is_message_processed(message_id, inbox)
          THEN /\ InboxSettle("none", FALSE)
               /\ UNCHANGED inbox
        ELSE IF InboxInsertRefused(message_id, inbox)
          THEN /\ InboxSettle("in_try", FALSE)
               /\ inbox' = MarkInboxFailed(inbox, message_id, "idle")
        ELSE /\ txPc' = "flushed"
             /\ txRow' = row
             /\ inbox' = InboxFlushVisible(inbox, row)
             /\ UNCHANGED << payQueue, handled, payInflight >>
  /\ UNCHANGED << orderVars, relayVars, busUp, published, payQueueDeclared,
                  payments, workers, faults, sagaVars, notifVars, netCalls >>

\* Lines 117-136: process_payment, INSERT the payment, UPDATE the inbox
\* row to processed, commit on leaving the block. A refused INSERT rolls
\* the transaction back and the handler of lines 154-165 runs.
InboxCommit ==
  /\ txPc = "flushed"
  /\ \E t \in 0..MaxTick :
       LET event == json_loads(payInflight.body)
           tx == InboxTransaction(event, txRow.message_id, inbox, payments, t)
       IN IF tx.ok
            THEN /\ inbox' = tx.inbox
                 /\ payments' = tx.payments
                 /\ txPc' = "committed"
                 /\ txRow' = [id |-> txRow.id, message_id |-> txRow.message_id,
                              success |-> tx.success,
                              payment_id |-> tx.payment_id]
                 /\ UNCHANGED << payQueue, handled, payInflight >>
            ELSE /\ inbox' = MarkInboxFailed(inbox, txRow.message_id, "idle")
                 /\ UNCHANGED payments
                 /\ InboxSettle("in_try", FALSE)
  /\ UNCHANGED << orderVars, relayVars, busUp, published, payQueueDeclared,
                  workers, faults, sagaVars, notifVars, netCalls >>

\* Lines 139-152: publish the follow-on event after the commit. A failed
\* publish raises into the handler of lines 154-165, which marks the
\* committed inbox row failed.
InboxPublish ==
  /\ txPc = "committed"
  /\ LET event == json_loads(payInflight.body)
         env == FollowOnEvent(event, txRow.success, txRow.payment_id)
     IN IF busUp
          THEN /\ published' = published (+) SetToBag({env})
               /\ notifQueue' =
                    RouteNotification(notifQueue, notifQueueDeclared, env)
               /\ UNCHANGED inbox
               /\ InboxSettle("none", TRUE)
          ELSE /\ inbox' = MarkInboxFailed(inbox, txRow.message_id, "idle")
               /\ UNCHANGED << published, notifQueue >>
               /\ InboxSettle("in_try", TRUE)
  /\ netCalls' = netCalls \cup {NetCall("payment", SessionAfterCommit("begun"))}
  /\ UNCHANGED << orderVars, relayVars, busUp, payQueueDeclared, payments,
                  workers, faults, sagaVars, notifQueueDeclared, notifInflight,
                  notifications >>

\* ------------------------------------- several instances of the consumer
\* consume_order_created run by each instance of Instances on the one
\* payment_queue and the one database, every statement of
\* _process_payment_with_inbox a step of its own, on sessions with no
\* transaction begun at line 106.

\* Deliveries of env held unacknowledged by the instances other than i: the
\* broker hands one queued message to one consumer at a time.
HeldByOthers(i, env) ==
  Cardinality({ j \in Instances \ {i} : workers[j].inflight = env })

WorkerMessageId(i) ==
  _generate_message_id(workers[i].inflight.body,
                       RoutingKeyOf(workers[i].inflight))

\* database.py line 52 between two open transactions: the unique index
\* makes the INSERT of line 115 wait while another transaction holds an
\* uncommitted row with the same message_id, until that one commits or
\* rolls back.
InsertWaits(i, message_id) ==
  \E j \in Instances \ {i} :
    workers[j].pc = "flushed" /\ workers[j].row.message_id = message_id

\* Lines 197-212 for instance i: the delivery is settled and remembered.
WorkerSettle(i, raised, committed) ==
  /\ payQueue' = IF busUp THEN payQueue (-) SetToBag({workers[i].inflight})
                 ELSE payQueue
  /\ handled' = handled (+) SetToBag({
       HandledRecord(workers[i].inflight, WorkerMessageId(i),
         "order_id" \in DOMAIN json_loads(workers[i].inflight.body),
         raised, committed,
         IF busUp THEN ProcessContextExit(ExceptionEscapes(raised))
         ELSE "lost")})
  /\ workers' = [workers EXCEPT ![i] = IdleWorker]

\* Lines 195-196: the broker delivers a queued message to instance i.
WorkerReceive(i) ==
  /\ payQueueDeclared
  /\ busUp
  /\ workers[i].inflight = NoMsg
  /\ \E env \in BagToSet(payQueue) :
       /\ CopiesIn(env, payQueue) > HeldByOthers(i, env)
       /\ workers' = [workers EXCEPT ![i].inflight = env]
  /\ UNCHANGED << orderVars, relayVars, busVars, payInflight, inbox,
                  payments, handled, txPc, txRow, faults, sagaVars,
                  notifVars, netCalls >>

\* Lines 199-203 and 96-103: parse, compute message_id, read the fields,
\* look the message up in the committed inbox.
WorkerLookup(i) ==
  /\ workers[i].inflight # NoMsg
  /\ workers[i].pc = "idle"
  /\ LET event == json_loads(workers[i].inflight.body)
     IN IF ~ ({"order_id", "total_amount"} \subseteq DOMAIN event)
          THEN WorkerSettle(i, "before_try", FALSE)
        ELSE IF _is_message_processed(WorkerMessageId(i), inbox)
          THEN WorkerSettle(i, "none", FALSE)
        ELSE /\ workers' = [workers EXCEPT ![i].pc = "looked"]
             /\ UNCHANGED << payQueue, handled >>
  /\ UNCHANGED << orderVars, relayVars, busUp, published, payQueueDeclared,
                  payInflight, inbox, payments, txPc, txRow, faults,
                  sagaVars, notifVars, netCalls >>

\* Lines 105-115: begin the transaction, INSERT the pending row, flush. A
\* committed row with the same message_id refuses the INSERT and the
\* handler of lines 154-165 runs.
WorkerFlush(i) ==
  /\ workers[i].pc = "looked"
  /\ ~ InsertWaits(i, WorkerMessageId(i))
  /\ LET event == json_loads(workers[i].inflight.body)
         row == PendingInboxRow(event, WorkerMessageId(i), inbox)
     IN IF InboxInsertRefused(WorkerMessageId(i), inbox)
          THEN /\ inbox' = MarkInboxFailed(inbox, WorkerMessageId(i), "idle")
               /\ WorkerSettle(i, "in_try", FALSE)
        ELSE /\ workers' = [workers EXCEPT ![i].pc = "flushed",
                                           ![i].row = row]
             /\ inbox' = InboxFlushVisible(inbox, row)
             /\ UNCHANGED << payQueue, handled >>
  /\ UNCHANGED << orderVars, relayVars, busUp, published, payQueueDeclared,
                  payInflight, payments, txPc, txRow, faults, sagaVars,
                  notifVars, netCalls >>

\* Lines 117-136: process_payment, INSERT the payment, UPDATE the inbox
\* row to processed, commit on leaving the block.
WorkerCommit(i) ==
  /\ workers[i].pc = "flushed"
  /\ \E t \in 0..MaxTick :
       LET event == json_loads(workers[i].inflight.body)
           tx == InboxTransaction(event, workers[i].row.message_id, inbox,
                                  payments, t)
       IN IF tx.ok
            THEN /\ inbox' = tx.inbox
                 /\ payments' = tx.payments
                 /\ workers' =
                      [workers EXCEPT
                         ![i].pc = "committed",
                         ![i].row = [id |-> workers[i].row.id,
                                     message_id |-> workers[i].row.message_id,
                                     success |-> tx.success,
                                     payment_id |-> tx.payment_id]]
                 /\ UNCHANGED << payQueue, handled >>
            ELSE /\ inbox' = MarkInboxFailed(inbox, workers[i].row.message_id,
                                             "idle")
                 /\ UNCHANGED payments
                 /\ WorkerSettle(i, "in_try", FALSE)
  /\ UNCHANGED << orderVars, relayVars, busUp, published, payQueueDeclared,
                  payInflight, txPc, txRow, faults, sagaVars, notifVars,
                  netCalls >>

\* Lines 139-152: publish the follow-on event after the commit.
WorkerPublish(i) ==
  /\ workers[i].pc = "committed"
  /\ LET event == json_loads(workers[i].inflight.body)
         env == FollowOnEvent(event, workers[i].row.success,
                              workers[i].row.payment_id)
     IN IF busUp
          THEN /\ published' = published (+) SetToBag({env})
               /\ notifQueue' =
                    RouteNotification(notifQueue, notifQueueDeclared, env)
               /\ UNCHANGED inbox
               /\ WorkerSettle(i, "none", TRUE)
          ELSE /\ inbox' = MarkInboxFailed(inbox, workers[i].row.message_id,
                                           "idle")
               /\ UNCHANGED << published, notifQueue >>
               /\ WorkerSettle(i, "in_try", TRUE)
  /\ netCalls' = netCalls \cup {NetCall("payment", SessionAfterCommit("begun"))}
  /\ UNCHANGED << orderVars, relayVars, busUp, payQueueDeclared, payInflight,
                  payments, txPc, txRow, faults, sagaVars,
                  notifQueueDeclared, notifInflight, notifications >>

\* Instance i dies while it holds a delivery: its open transaction is
\* lost, the broker keeps the message.
WorkerCrash(i) ==
  /\ workers[i].inflight # NoMsg
  /\ faults < MaxFaults
  /\ faults' = faults + 1
  /\ workers' = [workers EXCEPT ![i] = IdleWorker]
  /\ handled' =
       IF workers[i].pc = "idle" THEN handled
       ELSE handled (+) SetToBag({
              HandledRecord(workers[i].inflight, WorkerMessageId(i), TRUE,
                            "none", workers[i].pc = "committed", "crash")})
  /\ UNCHANGED << orderVars, relayVars, busVars, payInflight, inbox,
                  payments, txPc, txRow, sagaVars, notifVars, netCalls >>

\* --------------------------------------------------- notification_service
\* notification main.py lines 30-46
send_notification(order_id, customer_email, amount) ==
  [order_id |-> order_id, email |-> customer_email, sent |-> TRUE]

\* notification main.py lines 101-104: the notification.sent event
NotificationSent(order_id, customer_email) ==
  Envelope(ROUTING_KEY_NOTIFICATION_SENT,
           [order_id |-> order_id, email |-> customer_email])

\* notification main.py lines 89-104, what the handler does with one
\* delivery given the notifications already sent: "error" when a required
\* field is missing (KeyError at lines 90-92), "send" otherwise. Nothing
\* is looked up: there is no inbox in this service.
NotificationDecision(env, sent) ==
  IF ~ ({"order_id", "payment_id", "amount"}
          \subseteq DOMAIN json_loads(env.body))
    THEN "error"
  ELSE "send"

\* notification main.py lines 75-81: connect, declare the queue, bind it.
NotificationConnect ==
  /\ ~ notifQueueDeclared
  /\ busUp
  /\ notifQueueDeclared' = TRUE
  /\ UNCHANGED << orderVars, relayVars, busVars, payVars, faults, sagaVars,
                  notifQueue, notifInflight, notifications, netCalls >>

\* notification main.py lines 85-86: the broker delivers one message.
NotificationReceive ==
  /\ notifQueueDeclared
  /\ busUp
  /\ notifInflight = NoMsg
  /\ \E env \in BagToSet(notifQueue) : notifInflight' = env
  /\ UNCHANGED << orderVars, relayVars, busVars, payVars, faults, sagaVars,
                  notifQueueDeclared, notifQueue, notifications, netCalls >>

\* notification main.py lines 87-108: send the notification, publish
\* notification.sent, settle. The inner `except Exception` catches every
\* error, so the block is always left normally and the message is
\* acknowledged when the broker can be reached.
NotificationHandle ==
  /\ notifInflight # NoMsg
  /\ LET event == json_loads(notifInflight.body)
         decision == NotificationDecision(notifInflight, notifications)
         customer_email == IF "customer_email" \in DOMAIN event
                             THEN event["customer_email"] ELSE ""
     IN IF decision = "send"
          THEN /\ notifications' = notifications (+) SetToBag({
                    send_notification(event["order_id"], customer_email,
                                      event["amount"])})
               /\ published' =
                    IF busUp
                      THEN published (+) SetToBag({
                             NotificationSent(event["order_id"],
                                              customer_email)})
                    ELSE published
               /\ netCalls' = netCalls \cup {NetCall("notification", "idle")}
          ELSE UNCHANGED << notifications, published, netCalls >>
  /\ notifQueue' = IF busUp THEN notifQueue (-) SetToBag({notifInflight})
                   ELSE notifQueue
  /\ notifInflight' = NoMsg
  /\ UNCHANGED << orderVars, relayVars, busUp, payQueueDeclared, payQueue,
                  payVars, faults, sagaVars, notifQueueDeclared >>

\* The notification service dies while a message is unacknowledged.
NotificationCrash ==
  /\ notifInflight # NoMsg
  /\ faults < MaxFaults
  /\ faults' = faults + 1
  /\ notifInflight' = NoMsg
  /\ UNCHANGED << orderVars, relayVars, busVars, payVars, sagaVars,
                  notifQueueDeclared, notifQueue, notifications, netCalls >>

\* ------------------------------------------- orchestrated saga (order)
HTTP_402_PAYMENT_REQUIRED == 402

\* What the payment collaborator can answer to POST /payments/process:
\* no answer at all (connection failure, 10 s timeout: main.py line 27),
\* an error status, a 2xx body that is not JSON, or a 2xx JSON object with
\* success true, false or absent.
PaymentReplies ==
  { [answered |-> FALSE, status_code |-> 0, is_json |-> FALSE,
     success |-> "absent"],
    [answered |-> TRUE, status_code |-> 500, is_json |-> TRUE,
     success |-> "absent"],
    [answered |-> TRUE, status_code |-> 200, is_json |-> FALSE,
     success |-> "absent"],
    [answered |-> TRUE, status_code |-> 200, is_json |-> TRUE,
     success |-> "true"],
    [answered |-> TRUE, status_code |-> 200, is_json |-> TRUE,
     success |-> "false"],
    [answered |-> TRUE, status_code |-> 200, is_json |-> TRUE,
     success |-> "absent"] }

\* What the notification collaborator can answer.
NotificationReplies ==
  { [answered |-> FALSE, status_code |-> 0],
    [answered |-> TRUE, status_code |-> 500],
    [answered |-> TRUE, status_code |-> 200] }

NoReply == [answered |-> FALSE, status_code |-> -1]

\* httpx: the request raises a TransportError when no answer comes, and
\* raise_for_status() raises HTTPStatusError on a 4xx/5xx answer; both are
\* httpx.HTTPError.
RaisesHTTPError(reply) == ~ reply.answered \/ reply.status_code >= 400

PaymentStepFailClosed(reply) ==
  IF RaisesHTTPError(reply) THEN "declined"
  ELSE IF ~ reply.is_json THEN "error"
  ELSE IF reply.success = "true" THEN "paid"
  ELSE "declined"

PaymentStepIgnoresFlag(reply) ==
  IF RaisesHTTPError(reply) THEN "skipped"
  ELSE IF ~ reply.is_json THEN "error"
  ELSE "paid"

\* main.py lines 132-159, step 2: "skipped" is the except httpx.HTTPError
\* branch, "error" an exception that branch does not catch (the body is
\* not JSON), "declined" is `not payment_data.get("success", False)`.
PaymentStep(reply) ==
  IF RaisesHTTPError(reply) THEN "skipped"
  ELSE IF ~ reply.is_json THEN "error"
  ELSE IF reply.success = "true" THEN "paid"
  ELSE "declined"

NotificationStepFailClosed(reply) ==
  IF RaisesHTTPError(reply) THEN "cancel" ELSE "continue"

\* main.py lines 162-174, step 3: the answer is only checked by
\* raise_for_status(), and the httpx.HTTPError it or the request raises
\* is caught and logged; the saga continues either way.
NotificationStep(reply) == "continue"

CatchesEverything(exc) == TRUE

\* main.py line 156: what `except httpx.HTTPError` catches of the
\* exceptions raised in the try block of lines 132-155. The HTTPException
\* of line 152 and the ValueError of a body that is not JSON are not
\* httpx errors.
CaughtByHandler(exc) == exc \in {"TransportError", "HTTPStatusError"}

\* main.py lines 152-155: where the request goes after the compensation.
\* The HTTPException leaves the handler unless line 156 catches it.
AfterCancel ==
  IF CaughtByHandler("HTTPException") THEN "notification" ELSE "idle"

RejectionReturnsOrder(order) == [status_code |-> 200, order |-> order]

\* main.py lines 152-155: HTTPException(402, "Payment failed")
PaymentRejection(order) ==
  [status_code |-> HTTP_402_PAYMENT_REQUIRED, detail |-> "Payment failed"]

\* main.py lines 184-192: the order as refreshed from the database
OrderResponse(order) == [status_code |-> 200, order |-> order]

\* An exception nothing catches: FastAPI answers 500.
ServerError == [status_code |-> 500]
NoResponse == [status_code |-> 0]

SetStatus(ords, id, status) == [ords EXCEPT ![id].status = status]

SagaWritesOutbox(ob, order) ==
  ob @@ ((Len(ob) + 1) :> OrderCreatedOutbox(order))

\* main.py lines 121-129: what the transaction of step 1 adds to the
\* outbox. Only the order is added to the session; no OutboxMessageORM is
\* created anywhere in create_order_orchestrated (lines 118-192).
SagaOutbox(ob, order) == ob

\* main.py lines 118-129, step 1: insert the order and commit.
SagaCreate(req) ==
  /\ sagaPc = "idle"
  /\ orderSeq < MaxOrders
  /\ orderSeq' = orderSeq + 1
  /\ orders' = ((orderSeq + 1) :> OrderRow(orderSeq + 1, req)) @@ orders
  /\ sagaOrder' = orderSeq + 1
  /\ sagaLog' = ((orderSeq + 1) :>
                   [payment |-> NoReply, payment_called |-> FALSE,
                    notification |-> NoReply,
                    notification_called |-> FALSE,
                    response |-> NoResponse]) @@ sagaLog
  /\ sagaPc' = "payment"
  /\ outbox' = SagaOutbox(outbox, OrderRow(orderSeq + 1, req))
  /\ UNCHANGED << reqPc, reqRow, relayVars, busVars, payVars,
                  faults, notifVars, netCalls >>

\* main.py lines 132-144 and 156-159, step 2: call the payment
\* collaborator and interpret the answer.
SagaPayment(reply) ==
  /\ sagaPc = "payment"
  /\ LET step == PaymentStep(reply)
     IN /\ sagaPc' = CASE step = "declined" -> "cancel"
                       [] step = "error" -> "idle"
                       [] OTHER -> "notification"
        /\ sagaLog' =
             [sagaLog EXCEPT
                ![sagaOrder].payment = reply,
                ![sagaOrder].payment_called = TRUE,
                ![sagaOrder].response =
                   IF step = "error" THEN ServerError ELSE NoResponse]
  /\ netCalls' = netCalls \cup {NetCall("saga", SessionAfterCommit("begun"))}
  /\ UNCHANGED << orderVars, sagaOrder, relayVars, busVars, payVars,
                  faults, notifVars >>

\* main.py lines 145-155: the compensation, then the rejection.
SagaCancel ==
  /\ sagaPc = "cancel"
  /\ orders' = SetStatus(orders, sagaOrder, "cancelled")
  /\ sagaLog' = [sagaLog EXCEPT
                   ![sagaOrder].response =
                      IF AfterCancel = "idle"
                        THEN PaymentRejection(orders'[sagaOrder])
                      ELSE NoResponse]
  /\ sagaPc' = AfterCancel
  /\ UNCHANGED << orderSeq, outbox, reqPc, reqRow, sagaOrder, relayVars,
                  busVars, payVars, faults, notifVars, netCalls >>

\* main.py lines 161-174, step 3: call the notification collaborator; an
\* httpx.HTTPError is logged, nothing else depends on the answer.
SagaNotification(reply) ==
  /\ sagaPc = "notification"
  /\ sagaLog' = [sagaLog EXCEPT ![sagaOrder].notification_called = TRUE,
                                ![sagaOrder].notification = reply]
  /\ sagaPc' = IF NotificationStep(reply) = "cancel" THEN "cancel"
               ELSE "confirm"
  /\ netCalls' = netCalls \cup {NetCall("saga", SessionAfterCommit("begun"))}
  /\ UNCHANGED << orderVars, sagaOrder, relayVars, busVars, payVars,
                  faults, notifVars >>

\* main.py lines 176-192, step 4: confirm the order and return it.
SagaConfirm ==
  /\ sagaPc = "confirm"
  /\ orders' = SetStatus(orders, sagaOrder, "confirmed")
  /\ sagaLog' = [sagaLog EXCEPT
                   ![sagaOrder].response = OrderResponse(orders'[sagaOrder])]
  /\ sagaPc' = "idle"
  /\ UNCHANGED << orderSeq, outbox, reqPc, reqRow, sagaOrder, relayVars,
                  busVars, payVars, faults, notifVars, netCalls >>

\* The order service dies while a request is being handled.
SagaCrash ==
  /\ sagaPc # "idle"
  /\ faults < MaxFaults
  /\ faults' = faults + 1
  /\ sagaPc' = "idle"
  /\ UNCHANGED << orderVars, sagaOrder, sagaLog, relayVars, busVars,
                  payVars, notifVars, netCalls >>

NextSaga ==
  \/ \E req \in Requests : SagaCreate(req)
  \/ \E reply \in PaymentReplies : SagaPayment(reply)
  \/ SagaCancel
  \/ \E reply \in NotificationReplies : SagaNotification(reply)
  \/ SagaConfirm
  \/ SagaCrash

SpecSaga == Init /\ [][NextSaga]_vars

\* ------------------------------------------------------- specification
\* The order service alone: requests, the relay and the bus.
NextOutbox ==
  \/ \E req \in Requests : CreateOrderFlush(req)
  \/ CreateOrderCommit
  \/ CreateOrderCrash
  \/ RelayConnect
  \/ RelayPublish
  \/ RelayCommit
  \/ RelayCrash
  \/ BusFail
  \/ BusRecover

SpecOutbox == Init /\ [][NextOutbox]_vars

\* Outbox records as the table can hold them when the relay starts: the
\* order_created records of two orders and a record of another type.
StoredRecords ==
  { OrderCreatedOutbox(OrderRow(1, [customer_email |-> "a@x.com",
      items |-> << [product_id |-> 1, quantity |-> 2, price |-> 5] >>])),
    OrderCreatedOutbox(OrderRow(2, [customer_email |-> "b@x.com",
      items |-> << [product_id |-> 1, quantity |-> 1, price |-> 3] >>])),
    [event_type |-> "order_shipped", payload |-> [order_id |-> 1],
     status |-> "pending"] }

StoredOutboxes ==
  UNION { [1..n -> StoredRecords] : n \in 1..MaxQueued }

InitRelay ==
  \E ob \in StoredOutboxes : InitWith(ob, FALSE, EmptyBag, FALSE, EmptyBag)

\* The relay alone on a stored outbox.
NextRelay ==
  \/ RelayConnect
  \/ RelayPublish
  \/ RelayCommit
  \/ RelayCrash
  \/ BusFail
  \/ BusRecover

SpecRelay == InitRelay /\ [][NextRelay]_vars

\* Choreography end to end: the order service and the payment consumer.
Next ==
  \/ \E req \in Requests : orderSeq < MaxPaidOrders /\ CreateOrderFlush(req)
  \/ CreateOrderCommit
  \/ CreateOrderCrash
  \/ RelayConnect
  \/ RelayPublish
  \/ RelayCommit
  \/ RelayCrash
  \/ BusFail
  \/ BusRecover
  \/ PaymentConnect
  \/ PaymentReceive
  \/ PaymentHandle
  \/ PaymentCrash

Spec == Init /\ [][Next]_vars

\* ---------------------------------------- consumers on a loaded queue
\* The bags a queue can hold of the given envelopes, MaxQueued messages
\* at most: the transport is at-least-once, an envelope can be queued more
\* than once.
QueueContents(envs) ==
  { b \in { [e \in { x \in envs : f[x] > 0 } |-> f[e]] :
              f \in [envs -> 0..MaxQueued] } :
      BagCardinality(b) <= MaxQueued }

\* order.created envelopes a publisher can put on the exchange: the one
\* the relay sends for order 1, the same order without the optional
\* customer_email, and two bodies lacking a required field.
OrderCreatedMessages ==
  { Envelope(ROUTING_KEY_ORDER_CREATED,
      [order_id |-> 1, customer_email |-> "a@x.com", total_amount |-> 10]),
    Envelope(ROUTING_KEY_ORDER_CREATED,
      [order_id |-> 1, total_amount |-> 10]),
    Envelope(ROUTING_KEY_ORDER_CREATED,
      [order_id |-> 1, customer_email |-> "a@x.com"]),
    Envelope(ROUTING_KEY_ORDER_CREATED,
      [customer_email |-> "a@x.com", total_amount |-> 10]) }

\* payment.processed envelopes: two payments and a body lacking amount.
PaymentProcessedMessages ==
  { Envelope(ROUTING_KEY_PAYMENT_PROCESSED,
      [order_id |-> 1, payment_id |-> "pay_1_0", amount |-> 10,
       customer_email |-> "a@x.com"]),
    Envelope(ROUTING_KEY_PAYMENT_PROCESSED,
      [order_id |-> 2, payment_id |-> "pay_2_0", amount |-> 5,
       customer_email |-> "b@x.com"]),
    Envelope(ROUTING_KEY_PAYMENT_PROCESSED,
      [order_id |-> 1, payment_id |-> "pay_1_0"]) }

InitConsumer ==
  \E q \in QueueContents(OrderCreatedMessages) :
    InitWith(<< >>, TRUE, q, FALSE, EmptyBag)

InitNotification ==
  \E q \in QueueContents(PaymentProcessedMessages) :
    InitWith(<< >>, FALSE, EmptyBag, TRUE, q)

\* The payment consumer as deployed, on a queue that already holds
\* messages.
NextConsumer ==
  \/ PaymentReceive
  \/ PaymentHandle
  \/ PaymentCrash
  \/ BusFail
  \/ BusRecover

SpecConsumer == InitConsumer /\ [][NextConsumer]_vars

\* The try block of the payment consumer, statement by statement, on a
\* session with no transaction begun at line 106.
NextInbox ==
  \/ PaymentReceive
  \/ InboxFlush
  \/ InboxCommit
  \/ InboxPublish
  \/ PaymentCrash
  \/ BusFail
  \/ BusRecover

SpecInbox == InitConsumer /\ [][NextInbox]_vars

\* order.created envelopes of two orders, as the relay publishes them.
TwoOrdersMessages ==
  { Envelope(ROUTING_KEY_ORDER_CREATED,
      [order_id |-> 1, customer_email |-> "a@x.com", total_amount |-> 10]),
    Envelope(ROUTING_KEY_ORDER_CREATED,
      [order_id |-> 2, customer_email |-> "b@x.com", total_amount |-> 5]) }

InitWorkers ==
  \E q \in QueueContents(TwoOrdersMessages) :
    InitWith(<< >>, TRUE, q, FALSE, EmptyBag)

\* The instances of the payment consumer side by side on a queue that
\* holds messages, some of them more than once.
NextWorkers ==
  \/ \E i \in Instances : WorkerReceive(i)
  \/ \E i \in Instances : WorkerLookup(i)
  \/ \E i \in Instances : WorkerFlush(i)
  \/ \E i \in Instances : WorkerCommit(i)
  \/ \E i \in Instances : WorkerPublish(i)
  \/ \E i \in Instances : WorkerCrash(i)
  \/ BusFail
  \/ BusRecover

SpecWorkers == InitWorkers /\ [][NextWorkers]_vars

\* Both entry points of the order service served side by side, with the
\* relay and the payment consumer of the event path.
NextBoth ==
  \/ \E req \in Requests : CreateOrderFlush(req)
  \/ CreateOrderCommit
  \/ \E req \in Requests : SagaCreate(req)
  \/ \E reply \in PaymentReplies : SagaPayment(reply)
  \/ SagaCancel
  \/ \E reply \in NotificationReplies : SagaNotification(reply)
  \/ SagaConfirm
  \/ RelayConnect
  \/ RelayPublish
  \/ RelayCommit
  \/ PaymentConnect
  \/ PaymentReceive
  \/ PaymentHandle

SpecBoth == Init /\ [][NextBoth]_vars

\* The text _generate_message_id hashes for a delivery (line 76).
JoinedText(env) == RoutingKeyOf(env) \o << ":" >> \o env.body

\* Every delivery whose routing key and body, joined by ":", give the text
\* c: one for each ":" of c.
Splits(c) ==
  { [routing_key |-> SubSeq(c, 1, i - 1), body |-> SubSeq(c, i + 1, Len(c))] :
      i \in { j \in 1..Len(c) : c[j] = ":" } }

\* Deliveries whose message_id could be confused: an order.created event
\* whose customer_email is ":", every other delivery that joins to the
\* same text, and the same body under another routing key.
ConfusableMessages ==
  LET event == [order_id |-> 1, customer_email |-> ":", total_amount |-> 10]
  IN Splits(JoinedText(Envelope(ROUTING_KEY_ORDER_CREATED, event)))
       \cup {Envelope(ROUTING_KEY_GENERIC, event)}

InitMessageId ==
  \E q \in QueueContents(ConfusableMessages) :
    InitWith(<< >>, TRUE, q, FALSE, EmptyBag)

\* The payment consumer as deployed on a queue of such deliveries.
SpecMessageId == InitMessageId /\ [][NextConsumer]_vars

\* The notification consumer on a queue that already holds messages.
NextNotification ==
  \/ NotificationReceive
  \/ NotificationHandle
  \/ NotificationCrash
  \/ BusFail
  \/ BusRecover

SpecNotification == InitNotification /\ [][NextNotification]_vars

\* Envelopes a publisher can hand to the exchange: the order.created and
\* payment.processed events of order 1, the payment.failed event of order
\* 2, and a payment.failed envelope that carries a payment's fields.
ExchangeMessages ==
  { Envelope(ROUTING_KEY_ORDER_CREATED,
      [order_id |-> 1, customer_email |-> "a@x.com", total_amount |-> 10]),
    Envelope(ROUTING_KEY_PAYMENT_PROCESSED,
      [order_id |-> 1, payment_id |-> "pay_1_0", amount |-> 10,
       customer_email |-> "a@x.com"]),
    Envelope(ROUTING_KEY_PAYMENT_FAILED,
      [order_id |-> 2, reason |-> "Payment processing failed"]),
    Envelope(ROUTING_KEY_PAYMENT_FAILED,
      [order_id |-> 2, payment_id |-> "pay_2_0", amount |-> 5,
       reason |-> "Payment processing failed"]) }

\* publish_event (payment main.py lines 57-68) and the relay's
\* exchange.publish: the exchange accepts an envelope and routes it to the
\* queues bound to its routing key.
ExchangePublish(env) ==
  /\ busUp
  /\ CopiesIn(env, published) < MaxQueued
  /\ published' = published (+) SetToBag({env})
  /\ payQueue' = Route(payQueue, payQueueDeclared, env)
  /\ notifQueue' = RouteNotification(notifQueue, notifQueueDeclared, env)
  /\ UNCHANGED << orderVars, relayVars, busUp, payQueueDeclared, payVars,
                  faults, sagaVars, notifQueueDeclared, notifInflight,
                  notifications, netCalls >>

InitBus == InitWith(<< >>, FALSE, EmptyBag, TRUE, EmptyBag)

\* The exchange with its publishers, the notification consumer bound to
\* it, and create_order requests served meanwhile.
NextBus ==
  \/ \E env \in ExchangeMessages : ExchangePublish(env)
  \/ NotificationReceive
  \/ NotificationHandle
  \/ NotificationCrash
  \/ \E req \in Requests : orderSeq < MaxPaidOrders /\ CreateOrderFlush(req)
  \/ CreateOrderCommit
  \/ CreateOrderCrash
  \/ BusFail
  \/ BusRecover

SpecBus == InitBus /\ [][NextBus]_vars

\* The relay runs in a `while True` loop that catches every exception and
\* sleeps 5 s (outbox_publisher.py lines 29, 66-70): each of its steps is
\* taken if it stays possible.
SpecOutboxLive ==
  /\ Init
  /\ [][NextOutbox]_vars
  /\ WF_vars(RelayConnect)
  /\ WF_vars(RelayPublish)
  /\ WF_vars(RelayCommit)

\* ------------------------------------------------------------ observers
RECURSIVE SumCopies(_, _)
SumCopies(S, bag) ==
  IF S = {} THEN 0
  ELSE LET x == CHOOSE y \in S : TRUE
       IN CopiesIn(x, bag) + SumCopies(S \ {x}, bag)

PaymentsOf(o) == { q \in payments : q.order_id = o }

EventsOf(o, routing_keys) ==
  { e \in BagToSet(published) :
      e.routing_key \in routing_keys /\ json_loads(e.body)["order_id"] = o }

FollowOnCount(o) ==
  SumCopies(EventsOf(o, {ROUTING_KEY_PAYMENT_PROCESSED,
                         ROUTING_KEY_PAYMENT_FAILED}), published)

ProcessedCount(o) ==
  SumCopies(EventsOf(o, {ROUTING_KEY_PAYMENT_PROCESSED}), published)

HandledOf(message_id) ==
  { h \in BagToSet(handled) : h.message_id = message_id }

OrderCreatedRecords(o) ==
  { id \in DOMAIN outbox :
      outbox[id].event_type = "order_created"
        /\ outbox[id].payload.order_id = o }

IsPending(id) == id \in DOMAIN outbox /\ outbox[id].status = "pending"
IsSent(id) == id \in DOMAIN outbox /\ outbox[id].status = "sent"

\* ---------------------------------------------------------------- claims

\* C1: once the inbox-processing call has run one or more times for a
\* message, exactly one payment record and exactly one follow-on event
\* (payment.processed or payment.failed) exist for its order.
C1_AtMostOnceEffect ==
  \A h \in BagToSet(handled) :
    h.called =>
      /\ Cardinality(PaymentsOf(h.order_id)) = 1
      /\ FollowOnCount(h.order_id) = 1

\* C2: whatever the redeliveries by the bus and the re-publications by the
\* relay, the payment store never holds two payment records of one order.
C2_AtMostOnePaymentPerOrder ==
  \A o \in 1..MaxOrders : Cardinality(PaymentsOf(o)) <= 1

\* An order.created envelope published twice by the relay, and the
\* consumer has handled two deliveries of that message.
C2_Witness ==
  \E e \in BagToSet(published) :
    /\ e.routing_key = ROUTING_KEY_ORDER_CREATED
    /\ CopiesIn(e, published) >= 2
    /\ SumCopies(HandledOf(_generate_message_id(e.body, e.routing_key)),
                 handled) >= 2

\* C3: in every committed state of the order store an order row exists
\* exactly when its order_created outbox record exists.
C3_OutboxAtomicity ==
  \A o \in 1..MaxOrders :
    (o \in DOMAIN orders) <=> (OrderCreatedRecords(o) # {})

\* One request committed, another one crashed between flush and commit.
C3_Witness ==
  /\ reqPc = "idle"
  /\ DOMAIN orders # {}
  /\ orderSeq > Cardinality(DOMAIN orders)

\* C4: if from some point on the bus stays reachable, every pending outbox
\* record is eventually sent, the relay being scheduled fairly.
C4_EventualDelivery ==
  \A id \in 1..MaxOrders :
    (<>[]busUp) => [](IsPending(id) => <>IsSent(id))

\* A record is sent although an earlier cycle published it and then lost
\* its transaction.
C4_Witness ==
  \E id \in DOMAIN outbox :
    /\ IsSent(id)
    /\ faults > 0
    /\ CopiesIn(OutboxEnvelope(outbox[id]), published) >= 2

\* C6: once the order.created event of an order has been published,
\* handled and acknowledged, and nothing of it is left to do, exactly one
\* payment.processed event of that order has been published.
C6_ExactlyOneProcessed ==
  \A o \in DOMAIN orders :
    ( /\ \A id \in OrderCreatedRecords(o) : IsSent(id)
      /\ relayPc = "sleep"
      /\ payInflight = NoMsg
      /\ \A e \in BagToSet(payQueue) : json_loads(e.body)["order_id"] # o
      /\ \E h \in BagToSet(handled) : h.order_id = o /\ h.settled = "ack" )
    => ProcessedCount(o) = 1

\* C8: every outbox record whose committed status is sent has been
\* published to the bus at least once.
C8_SentOnlyAfterPublish ==
  \A id \in DOMAIN outbox :
    IsSent(id) => CopiesIn(OutboxEnvelope(outbox[id]), published) >= 1

\* A record is sent while another one of the same store is still pending
\* after a cycle that the unreachable bus aborted.
C8_Witness ==
  /\ ~ busUp
  /\ \E id \in DOMAIN outbox : IsSent(id)
  /\ \E id \in DOMAIN outbox : IsPending(id)

\* C9: a message is acknowledged only when its inbox transaction committed
\* or its inbox row was found processed; a message whose processing raised
\* without a commit is never acknowledged.
C9_AckOnlyAfterCommit ==
  \A h \in BagToSet(handled) :
    h.settled = "ack" => (h.committed \/ h.raised = "none")

\* C10: after a call that raised inside the try block, a committed inbox
\* row of that message exists with status failed.
C10_FailedRowAfterError ==
  \A h \in BagToSet(handled) :
    h.raised = "in_try" =>
      \E r \in inbox : r.message_id = h.message_id /\ r.status = "failed"

\* The payment collaborator answered the order's call with success=false.
Declined(o) ==
  /\ sagaLog[o].payment.answered
  /\ sagaLog[o].payment.status_code = 200
  /\ sagaLog[o].payment.is_json
  /\ sagaLog[o].payment.success = "false"

\* The 2xx JSON answer carried no true success flag: the payment is known
\* to have failed.
KnownFailed(o) ==
  /\ sagaLog[o].payment.answered
  /\ sagaLog[o].payment.status_code = 200
  /\ sagaLog[o].payment.is_json
  /\ sagaLog[o].payment.success # "true"

Responded(o) == sagaLog[o].response # NoResponse

\* C5: when the payment collaborator answers success=false, no
\* notification call is made for the order, the order is never confirmed,
\* and once the request has returned the order's status is cancelled.
C5_OrchestrationCompensation ==
  \A o \in DOMAIN sagaLog :
    Declined(o) =>
      /\ ~ sagaLog[o].notification_called
      /\ orders[o].status # "confirmed"
      /\ Responded(o) => orders[o].status = "cancelled"

\* A declined order whose request has returned.
C5_Witness ==
  \E o \in DOMAIN sagaLog :
    Declined(o) /\ Responded(o) /\ orders[o].status = "cancelled"

\* C7: when the payment is known to have failed, the request never returns
\* the order as confirmed: what it returns is the 402 rejection, and the
\* order is not confirmed.
C7_NoSuccessAfterFailedPayment ==
  \A o \in DOMAIN sagaLog :
    KnownFailed(o) =>
      /\ orders[o].status # "confirmed"
      /\ Responded(o) =>
           sagaLog[o].response.status_code = HTTP_402_PAYMENT_REQUIRED

\* A request answered 402 after a 2xx answer without a success field, and
\* another order confirmed.
C7_Witness ==
  /\ \E o \in DOMAIN sagaLog :
       /\ KnownFailed(o)
       /\ sagaLog[o].payment.success = "absent"
       /\ sagaLog[o].response.status_code = HTTP_402_PAYMENT_REQUIRED
  /\ \E o \in DOMAIN sagaLog :
       sagaLog[o].response = OrderResponse(orders[o])
         /\ orders[o].status = "confirmed"

\* Nothing of order o is waiting for the payment consumer or in its hands.
PaymentQuiet(o) ==
  /\ payInflight = NoMsg
  /\ txPc = "idle"
  /\ \A e \in BagToSet(payQueue) :
       "order_id" \in DOMAIN json_loads(e.body)
         => json_loads(e.body)["order_id"] # o

InboxRowsOf(message_id) == { r \in inbox : r.message_id = message_id }

\* C11: a delivery whose processing raised is not acknowledged: it is
\* rejected, or its settlement is lost, and the broker keeps the message.
C11_NackOnFailure ==
  \A h \in BagToSet(handled) :
    h.raised # "none" => h.settled # "ack"

C13_OneRowPerMessageId ==
  \A r1 \in inbox : \A r2 \in inbox :
    r1.message_id = r2.message_id => r1 = r2

\* A message handled at least twice, one of its deliveries having raised
\* in the try block, and a committed inbox row of that message.
C13_Witness ==
  \E h \in BagToSet(handled) :
    /\ h.raised = "in_try"
    /\ SumCopies(HandledOf(h.message_id), handled) >= 2
    /\ InboxRowsOf(h.message_id) # {}

\* C14: every committed inbox row with status processed has a committed
\* payment record of the order its payload names.
C14_ProcessedImpliesPayment ==
  \A r \in inbox :
    r.status = "processed" =>
      \E q \in payments : q.order_id = r.payload["order_id"]

\* A processed row read back after the consumer died between the commit
\* and the publish.
C14_Witness ==
  /\ \E r \in inbox : r.status = "processed"
  /\ \E h \in BagToSet(handled) : h.settled = "crash" /\ h.committed

\* C15: two handled deliveries with the same routing key and the same body
\* were given the same message_id, whatever else differs between them.
C15_MessageIdDeterministic ==
  \A h1 \in BagToSet(handled) : \A h2 \in BagToSet(handled) :
    ( /\ RoutingKeyOf(h1.envelope) = RoutingKeyOf(h2.envelope)
      /\ h1.envelope.body = h2.envelope.body )
    => h1.message_id = h2.message_id

\* Three deliveries of one envelope have been handled: one was
\* acknowledged, the settlement of another was lost with the connection.
C15_Witness ==
  \E h1 \in BagToSet(handled) : \E h2 \in BagToSet(handled) :
    /\ h1.envelope = h2.envelope
    /\ h1.settled = "ack"
    /\ h2.settled = "lost"
    /\ SumCopies(HandledOf(h1.message_id), handled) >= 3

\* C16: in every step each outbox record stays in the store with its
\* content, and a record that is sent stays sent.
C16_OutboxMonotone ==
  [][\A id \in DOMAIN outbox :
       /\ id \in DOMAIN outbox'
       /\ outbox'[id].event_type = outbox[id].event_type
       /\ outbox'[id].payload = outbox[id].payload
       /\ outbox'[id].status \in {"pending", "sent"}
       /\ outbox[id].status = "sent" => outbox'[id].status = "sent"]_vars

\* A later cycle has published another record and is about to commit
\* while an earlier record is already sent, after a fault.
C16_Witness ==
  /\ relayPc = "batch"
  /\ relayMarked # {}
  /\ faults > 0
  /\ \E id \in DOMAIN outbox : IsSent(id)

\* C17: after a delivery whose body lacks order_id or total_amount, a
\* committed inbox row of that message has status failed and the delivery
\* was not acknowledged.
C17_MalformedMarkedFailed ==
  \A h \in BagToSet(handled) :
    h.raised = "before_try" =>
      /\ \E r \in InboxRowsOf(h.message_id) : r.status = "failed"
      /\ h.settled # "ack"

\* C18: however often one payment.processed event is delivered, at most
\* one notification is sent for it and at most one notification.sent
\* event is published for it.
C18_NotificationIdempotent ==
  /\ \A n \in BagToSet(notifications) : CopiesIn(n, notifications) <= 1
  /\ \A e \in BagToSet(published) :
       e.routing_key = ROUTING_KEY_NOTIFICATION_SENT
         => CopiesIn(e, published) <= 1

\* C19: no publish to the bus and no call of a collaborator was made by a
\* component whose session had a transaction open.
C19_NoOpenTransactionAtCall ==
  \A c \in netCalls : ~ c.tx_open

\* C20: no committed inbox row has status pending.
C20_NoCommittedPending ==
  \A r \in inbox : r.status # "pending"

\* The consumer died after the flush of the pending row and before the
\* commit.
C20_Witness ==
  \E h \in BagToSet(handled) :
    h.settled = "crash" /\ ~ h.committed /\ InboxRowsOf(h.message_id) = {}

\* C21: a relay cycle that ends on a failed publish leaves the committed
\* outbox as it was, and every record of its batch, published before the
\* failure or not, is pending afterwards.
C21_FailedCycleMarksNothing ==
  [][( /\ relayPc = "batch"
       /\ relayBatch # {}
       /\ ~ busUp
       /\ relayPc' = "sleep"
       /\ faults' = faults )
     => /\ outbox' = outbox
        /\ \A id \in relayBatch \cup relayMarked :
             outbox'[id].status = "pending"]_vars

\* After a cycle the unreachable bus aborted: one record of its batch was
\* published before the failure, another was not, both are pending.
C21_Witness ==
  /\ ~ busUp
  /\ relayPc = "sleep"
  /\ \E id \in DOMAIN outbox :
       IsPending(id) /\ CopiesIn(OutboxEnvelope(outbox[id]), published) >= 1
  /\ \E id \in DOMAIN outbox :
       IsPending(id) /\ CopiesIn(OutboxEnvelope(outbox[id]), published) = 0

\* The records whose publication gives the envelope e under the mapping:
\* order_created to order.created, anything else to events.generic, the
\* body parsing back to the payload.
SourcesOf(e) ==
  { id \in DOMAIN outbox :
      /\ json_loads(e.body) = outbox[id].payload
      /\ \/ outbox[id].event_type = "order_created"
            /\ e.routing_key = << "order.created" >>
         \/ outbox[id].event_type # "order_created"
            /\ e.routing_key = << "events.generic" >> }

\* C22: every envelope on the exchange is the publication of an outbox
\* record under the mapping, and every sent record has such an envelope.
C22_RoutingKeyMapping ==
  /\ \A e \in BagToSet(published) : SourcesOf(e) # {}
  /\ \A id \in DOMAIN outbox :
       IsSent(id) => \E e \in BagToSet(published) : id \in SourcesOf(e)

\* A record of another type and an order_created record are both sent.
C22_Witness ==
  /\ \E id \in DOMAIN outbox :
       IsSent(id) /\ outbox[id].event_type = "order_shipped"
  /\ \E id \in DOMAIN outbox :
       IsSent(id) /\ outbox[id].event_type = "order_created"

\* C23: a step of the relay changes no order row, creates and deletes no
\* outbox record and changes no record's event_type or payload.
C23_RelayFrame ==
  [][(relayVars' # relayVars) =>
       /\ orders' = orders
       /\ orderSeq' = orderSeq
       /\ DOMAIN outbox' = DOMAIN outbox
       /\ \A id \in DOMAIN outbox :
            /\ outbox'[id].event_type = outbox[id].event_type
            /\ outbox'[id].payload = outbox[id].payload]_vars

\* The relay has committed a record as sent while a create_order request
\* holds an uncommitted order.
C23_Witness ==
  /\ reqPc = "flushed"
  /\ relayPc = "sleep"
  /\ \E id \in DOMAIN outbox : IsSent(id)
  /\ Cardinality(DOMAIN orders) = 1

\* The message_id the payment consumer computes for the delivery it holds.
InflightMessageId ==
  _generate_message_id(payInflight.body, RoutingKeyOf(payInflight))

\* C24: the step that handles a delivery whose inbox row is processed
\* changes no inbox row, no payment and nothing on the exchange, and, the
\* broker being reachable, acknowledges the delivery and takes it off the
\* queue.
C24_ProcessedIsNoOp ==
  [][( /\ payInflight # NoMsg
       /\ txPc = "idle"
       /\ \E r \in InboxRowsOf(InflightMessageId) : r.status = "processed"
       /\ payInflight' = NoMsg
       /\ faults' = faults )
     => /\ inbox' = inbox
        /\ payments' = payments
        /\ published' = published
        /\ busUp =>
             /\ payQueue' = payQueue (-) SetToBag({payInflight})
             /\ \E h \in BagToSet(handled') :
                  /\ h.envelope = payInflight
                  /\ h.settled = "ack"
                  /\ CopiesIn(h, handled') = CopiesIn(h, handled) + 1]_vars

\* A delivery was skipped and acknowledged because its row was processed,
\* the follow-on event of the first delivery being on the exchange.
C24_Witness ==
  \E h \in BagToSet(handled) :
    /\ h.called
    /\ h.raised = "none"
    /\ ~ h.committed
    /\ h.settled = "ack"
    /\ \E r \in InboxRowsOf(h.message_id) : r.status = "processed"
    /\ FollowOnCount(h.order_id) = 1

\* The payment call of the order got no answer: the collaborator was
\* unreachable or the 10 s timeout expired.
TransportFailure(o) ==
  sagaLog[o].payment_called /\ ~ sagaLog[o].payment.answered

\* The payment collaborator answered 2xx JSON with success true.
PaymentSucceeded(o) ==
  /\ sagaLog[o].payment.answered
  /\ sagaLog[o].payment.status_code = 200
  /\ sagaLog[o].payment.is_json
  /\ sagaLog[o].payment.success = "true"

\* The notification call was made and failed: no answer or an error status.
NotificationFailed(o) ==
  /\ sagaLog[o].notification_called
  /\ \/ ~ sagaLog[o].notification.answered
     \/ sagaLog[o].notification.status_code >= 400

ReturnedConfirmed(o) ==
  /\ orders[o].status = "confirmed"
  /\ sagaLog[o].response = [status_code |-> 200, order |-> orders[o]]

\* C25: when the payment call gets no answer the order is never
\* cancelled, and once the request has returned the notification call was
\* made and the order is confirmed.
C25_ProceedOnTransportFailure ==
  \A o \in DOMAIN sagaLog :
    TransportFailure(o) =>
      /\ orders[o].status # "cancelled"
      /\ Responded(o) =>
           sagaLog[o].notification_called /\ ReturnedConfirmed(o)

\* An order confirmed after a payment call that got no answer.
C25_Witness ==
  \E o \in DOMAIN sagaLog :
    TransportFailure(o) /\ Responded(o) /\ ReturnedConfirmed(o)

\* C26: when the notification call fails after a successful payment the
\* order is never cancelled, and the request returns the confirmed order.
C26_NotificationBestEffort ==
  \A o \in DOMAIN sagaLog :
    (PaymentSucceeded(o) /\ NotificationFailed(o)) =>
      /\ orders[o].status # "cancelled"
      /\ Responded(o) => ReturnedConfirmed(o)

\* Two paid orders returned confirmed, the notification call of one got
\* no answer, that of the other an error status.
C26_Witness ==
  /\ \E o \in DOMAIN sagaLog :
       /\ PaymentSucceeded(o) /\ ReturnedConfirmed(o)
       /\ sagaLog[o].notification_called
       /\ ~ sagaLog[o].notification.answered
  /\ \E o \in DOMAIN sagaLog :
       /\ PaymentSucceeded(o) /\ ReturnedConfirmed(o)
       /\ sagaLog[o].notification.answered
       /\ sagaLog[o].notification.status_code >= 400

\* C27: an order's status changes only from pending, and only to confirmed
\* or cancelled; no order is deleted; a notification call is made only
\* after the payment call has returned.
C27_LinearSaga ==
  /\ [][\A o \in DOMAIN orders :
          /\ o \in DOMAIN orders'
          /\ orders'[o].status # orders[o].status =>
               /\ orders[o].status = "pending"
               /\ orders'[o].status \in {"confirmed", "cancelled"}]_vars
  /\ [](\A o \in DOMAIN sagaLog :
          sagaLog[o].notification_called => sagaLog[o].payment_called)

\* One order cancelled after a declined payment, another one paid,
\* notified and confirmed.
C27_Witness ==
  /\ \E o \in DOMAIN sagaLog :
       Declined(o) /\ orders[o].status = "cancelled"
  /\ \E o \in DOMAIN sagaLog :
       /\ PaymentSucceeded(o)
       /\ sagaLog[o].notification_called
       /\ orders[o].status = "confirmed"

\* C28: once the request of an orchestrated order has been answered, the
\* order is confirmed or cancelled.
C28_EveryOrderTerminates ==
  \A o \in DOMAIN sagaLog :
    Responded(o) => orders[o].status \in {"confirmed", "cancelled"}

\* C29: every notification sent is of an order whose payment.processed
\* event is on the exchange, and the notification consumer is only ever
\* handed envelopes published with the routing key payment.processed.
C29_NotifyOnlyAfterProcessed ==
  /\ \A n \in BagToSet(notifications) : ProcessedCount(n.order_id) >= 1
  /\ \A e \in BagToSet(notifQueue) \cup ({notifInflight} \ {NoMsg}) :
       e.routing_key = << "payment.processed" >>

\* A notification of order 1 was sent while order.created and
\* payment.failed events were on the exchange too.
C29_Witness ==
  /\ \E n \in BagToSet(notifications) : n.order_id = 1
  /\ \E e \in BagToSet(published) : e.routing_key = << "order.created" >>
  /\ \E e \in BagToSet(published) :
       /\ e.routing_key = << "payment.failed" >>
       /\ "payment_id" \in DOMAIN json_loads(e.body)

\* C30: every order created through create_order has status pending.
C30_ChoreographyKeepsPending ==
  \A o \in DOMAIN orders : orders[o].status = "pending"

\* The order is committed, its payment.processed event was published and
\* consumed, its notification.sent event and a payment.failed event are on
\* the exchange.
C30_Witness ==
  \E o \in DOMAIN orders :
    /\ ProcessedCount(o) >= 1
    /\ \E n \in BagToSet(notifications) : n.order_id = o
    /\ \E e \in BagToSet(published) :
         /\ e.routing_key = ROUTING_KEY_NOTIFICATION_SENT
         /\ json_loads(e.body)["order_id"] = o
    /\ \E e \in BagToSet(published) :
         e.routing_key = ROUTING_KEY_PAYMENT_FAILED

FailedCount(o) ==
  SumCopies(EventsOf(o, {ROUTING_KEY_PAYMENT_FAILED}), published)

\* C31: for every order.created delivery the consumer has processed (the
\* call was made with the required fields), exactly one follow-on event of
\* the order has been emitted, and it agrees with every committed payment
\* record of the order: payment.processed exactly when the record is
\* completed, payment.failed exactly when it is failed.
C31_FollowOnAgreesWithPayment ==
  \A h \in BagToSet(handled) :
    (h.called /\ h.raised # "before_try") =>
      /\ FollowOnCount(h.order_id) = 1
      /\ \A q \in PaymentsOf(h.order_id) :
           /\ (q.status = "completed") <=> (ProcessedCount(h.order_id) = 1)
           /\ (q.status = "failed") <=> (FailedCount(h.order_id) = 1)

\* C32: the outbox record create_order commits is an order_created record
\* with status pending, committed in the same step as its order row, and
\* its payload carries that row's id, customer_email and total_amount, the
\* total being the sum over the request's items of price times quantity.
C32_OutboxRecordMatchesOrder ==
  [][\A id \in DOMAIN outbox' \ DOMAIN outbox :
       LET rec == outbox'[id]
           o == rec.payload.order_id
       IN /\ rec.event_type = "order_created"
          /\ rec.status = "pending"
          /\ o \notin DOMAIN orders
          /\ o \in DOMAIN orders'
          /\ orders'[o].id = o
          /\ rec.payload.customer_email = orders'[o].customer_email
          /\ rec.payload.total_amount = orders'[o].total_amount
          /\ \E req \in Requests :
               /\ req.customer_email = rec.payload.customer_email
               /\ rec.payload.total_amount = SumItems(req.items)]_vars

\* The record of a request with one item of quantity 2 and price 5 is
\* committed with total_amount 10, beside the record of a two-item request.
C32_Witness ==
  /\ \E id \in DOMAIN outbox :
       /\ outbox[id].status = "pending"
       /\ outbox[id].payload.customer_email = "a@x.com"
       /\ outbox[id].payload.total_amount = 10
       /\ orders[outbox[id].payload.order_id].total_amount = 10
  /\ \E id \in DOMAIN outbox :
       /\ outbox[id].payload.customer_email = "b@x.com"
       /\ outbox[id].payload.total_amount = 5

C34_OneCommitPerMessage ==
  /\ \A r1 \in inbox : \A r2 \in inbox :
       r1.message_id = r2.message_id => r1 = r2
  /\ \A h \in BagToSet(handled) :
       SumCopies({ g \in HandledOf(h.message_id) : g.committed }, handled) <= 1
  /\ \A o \in 1..MaxOrders :
       /\ Cardinality(PaymentsOf(o)) <= 1
       /\ FollowOnCount(o) <= 1

\* Two instances read the inbox for the same message before either had
\* committed: one committed and published, the other reached the INSERT
\* afterwards and raised. No fault was injected and the message was
\* handled twice in all, so the second lookup preceded the commit.
C34_Witness ==
  /\ faults = 0
  /\ \E h1 \in BagToSet(handled) : \E h2 \in BagToSet(handled) :
       /\ h1.message_id = h2.message_id
       /\ SumCopies(HandledOf(h1.message_id), handled) = 2
       /\ h1.committed /\ h1.raised = "none"
       /\ h2.raised = "in_try" /\ ~ h2.committed
       /\ FollowOnCount(h1.order_id) = 1
       /\ Cardinality(PaymentsOf(h1.order_id)) = 1

\* The records the cycle in progress selected (outbox_publisher.py line
\* 41, messages): those still to publish and those published and updated.
RelaySelected == relayBatch \cup relayMarked

\* C35: while a relay cycle is in progress, a record that create_order
\* commits is not taken into the cycle, the cycle's selection never grows,
\* and every pending record the cycle has not published and updated is
\* still pending after each of its steps, the commit included; a record
\* that is sent has been published.
C35_LateRecordStaysPending ==
  /\ [][relayPc = "batch" =>
          /\ \A id \in DOMAIN outbox' \ DOMAIN outbox :
               /\ id \notin relayBatch' \cup relayMarked'
               /\ outbox'[id].status = "pending"
          /\ (relayBatch' \cup relayMarked') \subseteq RelaySelected
          /\ \A id \in DOMAIN outbox :
               (IsPending(id) /\ id \notin relayMarked)
                 => outbox'[id].status = "pending"]_vars
  /\ [](\A id \in DOMAIN outbox :
          IsSent(id) => CopiesIn(OutboxEnvelope(outbox[id]), published) >= 1)

\* A cycle has published all it selected and is about to commit, while a
\* record committed after its select is pending and not published.
C35_Witness ==
  /\ relayPc = "batch"
  /\ relayBatch = {}
  /\ relayMarked # {}
  /\ \E id \in DOMAIN outbox :
       /\ IsPending(id)
       /\ id \notin RelaySelected
       /\ CopiesIn(OutboxEnvelope(outbox[id]), published) = 0

\* C36: a step of create_order_orchestrated leaves the outbox as it was,
\* and an orchestrated order has no outbox record, no event of any kind on
\* the exchange, no delivery handled by the payment consumer and no
\* payment record made by it.
C36_OrchestratedWritesNoOutbox ==
  /\ [][(sagaPc' # sagaPc \/ sagaLog' # sagaLog) => outbox' = outbox]_vars
  /\ [](\A o \in DOMAIN sagaLog :
          /\ \A id \in DOMAIN outbox : outbox[id].payload.order_id # o
          /\ \A e \in BagToSet(published) : json_loads(e.body)["order_id"] # o
          /\ \A e \in BagToSet(payQueue) : json_loads(e.body)["order_id"] # o
          /\ \A h \in BagToSet(handled) : h.order_id # o
          /\ PaymentsOf(o) = {})

\* An orchestrated order was confirmed and returned while the event of an
\* order made through create_order went through the relay and the payment
\* consumer.
C36_Witness ==
  /\ \E o \in DOMAIN sagaLog :
       /\ orders[o].status = "confirmed"
       /\ sagaLog[o].response = OrderResponse(orders[o])
  /\ \E o \in DOMAIN orders :
       /\ o \notin DOMAIN sagaLog
       /\ \E id \in OrderCreatedRecords(o) : IsSent(id)
       /\ \E h \in BagToSet(handled) : h.order_id = o

\* C37: an orchestrated order is confirmed only if the payment call got
\* no answer at all or a 2xx answer with success=true.
C37_ConfirmedOnlyIfPaidOrUnreachable ==
  \A o \in DOMAIN sagaLog :
    orders[o].status = "confirmed" =>
      (TransportFailure(o) \/ PaymentSucceeded(o))

\* C38: two handled deliveries for which a message_id was computed and
\* that differ in routing key (as line 200 gives it) or in body have
\* different message_ids.
C38_MessageIdSeparates ==
  \A h1 \in BagToSet(handled) : \A h2 \in BagToSet(handled) :
    ( /\ h1.message_id # NoMessageId
      /\ h2.message_id # NoMessageId
      /\ \/ RoutingKeyOf(h1.envelope) # RoutingKeyOf(h2.envelope)
         \/ h1.envelope.body # h2.envelope.body )
    => h1.message_id # h2.message_id

\* Two deliveries that join to the same text have been handled: a
\* message_id was computed for the one whose body is JSON and none for the
\* other.
C38_Witness ==
  \E h1 \in BagToSet(handled) : \E h2 \in BagToSet(handled) :
    /\ h1.envelope # h2.envelope
    /\ JoinedText(h1.envelope) = JoinedText(h2.envelope)
    /\ h1.message_id = _generate_message_id(h1.envelope.body,
                                            RoutingKeyOf(h1.envelope))
    /\ h2.message_id = NoMessageId

====
